---- MODULE Spec2Model ----
(***************************************************************************)
(* Model of the OpenAssistant RAG server.                                  *)
(*                                                                         *)
(*   rag-server/config.py  provider/model resolution (SpecParse,           *)
(*                          SpecConfig)                                    *)
(*   rag-server/server.py  lazy engine handle, authentication and request  *)
(*                          handlers (Spec)                                *)
(*                                                                         *)
(* Strings that the code searches for '/' (provider ids, model ids) are    *)
(* sequences of tokens; a token is either the character "/" or a non-empty *)
(* slash-free run of characters.  The empty string is << >>.  Strings that *)
(* the code only tests for emptiness and copies (URLs, keys) are TLA+      *)
(* strings, "" being the empty one.  A value that may be missing (an unset *)
(* environment variable, an absent JSON field, None) is << >>, a present   *)
(* value v is << v >>.                                                     *)
(***************************************************************************)
EXTENDS Integers, Sequences, FiniteSets, TLC

VARIABLES
  \* ---- config.py ----
  model_str,      \* argument of _parse_model_string
  parsed,         \* its result, << >> before the call
  cfg_pc,         \* position in _resolve_config: "start", "fetched", "resolved"
  response,       \* what httpx.get did in _fetch_from_web_app
  remote,         \* value returned by _fetch_from_web_app (<< >> is None)
  fetch_raised,   \* TRUE iff _fetch_from_web_app raised to _resolve_config
  env,            \* environment read by _resolve_from_env (<< >> if not read)
  cfg,            \* tuple returned by _resolve_config (<< >> before it returns)
  \* ---- server.py ----
  API_KEY,               \* config.API_KEY
  rag_instance,          \* 0 is None, n > 0 is the n-th LightRAG object built
  rag_anything_instance, \* << >> is None, << h >> is RAGAnything(lightrag=h)
  phase,                 \* lifespan: "startup", "serving", "failed", "shutdown"
  req,                   \* per connection: the request being handled
  sent,                  \* the request answered by the last step, with its
                         \* response (<< >> if the step answered none)
  arrived,               \* number of requests received so far
  constructed,           \* number of LightRAG objects built so far
  unavailable            \* TRUE once a construction has ended in ImportError

cfgvars == <<model_str, parsed, cfg_pc, response, remote, fetch_raised, env, cfg>>
srvvars == <<API_KEY, rag_instance, rag_anything_instance, phase, req, sent,
             arrived, constructed, unavailable>>
vars == <<cfgvars, srvvars>>

(***************************************************************************)
(* Bounds                                                                  *)
(***************************************************************************)
MaxLen == 3        \* longest model string, in tokens
MaxRequests == 2   \* requests received in one run

None == << >>
Some(v) == << v >>

(***************************************************************************)
(* config.py: provider registry                                            *)
(***************************************************************************)
PROVIDER_DEFAULTS ==
  [ openai      |-> [base_url |-> "https://api.openai.com/v1",
                     default_model |-> <<"gpt-4o">>,
                     env_key |-> "OPENAI_API_KEY"],
    anthropic   |-> [base_url |-> "https://api.anthropic.com/v1",
                     default_model |-> <<"claude-sonnet-4-5-20250929">>,
                     env_key |-> "ANTHROPIC_API_KEY"],
    google      |-> [base_url |-> "https://generativelanguage.googleapis.com/v1beta/openai",
                     default_model |-> <<"gemini-2.5-pro">>,
                     env_key |-> "GOOGLE_AI_API_KEY"],
    mistral     |-> [base_url |-> "https://api.mistral.ai/v1",
                     default_model |-> <<"mistral-large-latest">>,
                     env_key |-> "MISTRAL_API_KEY"],
    xai         |-> [base_url |-> "https://api.x.ai/v1",
                     default_model |-> <<"grok-3">>,
                     env_key |-> "XAI_API_KEY"],
    deepseek    |-> [base_url |-> "https://api.deepseek.com/v1",
                     default_model |-> <<"deepseek-chat">>,
                     env_key |-> "DEEPSEEK_API_KEY"],
    openrouter  |-> [base_url |-> "https://openrouter.ai/api/v1",
                     default_model |-> <<"openai", "/", "gpt-4o">>,
                     env_key |-> "OPENROUTER_API_KEY"],
    perplexity  |-> [base_url |-> "https://api.perplexity.ai",
                     default_model |-> <<"sonar-pro">>,
                     env_key |-> "PERPLEXITY_API_KEY"],
    ollama      |-> [base_url |-> "http://localhost:11434/v1",
                     default_model |-> <<"llama3.1">>,
                     env_key |-> ""],
    lmstudio    |-> [base_url |-> "http://localhost:1234/v1",
                     default_model |-> <<"local-model">>,
                     env_key |-> ""],
    minimax     |-> [base_url |-> "https://api.minimax.chat/v1",
                     default_model |-> <<"MiniMax-M2.1">>,
                     env_key |-> "MINIMAX_API_KEY"],
    glm         |-> [base_url |-> "https://open.bigmodel.cn/api/paas/v4",
                     default_model |-> <<"glm-4-plus">>,
                     env_key |-> "GLM_API_KEY"],
    huggingface |-> [base_url |-> "https://api-inference.huggingface.co/v1",
                     default_model |-> <<"meta-llama", "/", "Llama-3.1-70B-Instruct">>,
                     env_key |-> "HUGGINGFACE_API_KEY"],
    vercel      |-> [base_url |-> "https://gateway.ai.vercel.app/v1",
                     default_model |-> <<"openai", "/", "gpt-4o">>,
                     env_key |-> "VERCEL_AI_GATEWAY_KEY"] ]

\* provider in PROVIDER_DEFAULTS
InRegistry(provider) ==
  Len(provider) = 1 /\ provider[1] \in DOMAIN PROVIDER_DEFAULTS

\* PROVIDER_DEFAULTS.get(provider, PROVIDER_DEFAULTS["openai"])
DefaultsGet(provider) ==
  IF InRegistry(provider) THEN PROVIDER_DEFAULTS[provider[1]]
  ELSE PROVIDER_DEFAULTS["openai"]

\* d.get(key, default) and os.getenv(key, default)
Get(d, key, default) ==
  IF key \in DOMAIN d /\ d[key] # None THEN d[key][1] ELSE default

(***************************************************************************)
(* config.py: _parse_model_string                                          *)
(***************************************************************************)
\* "/" in s
HasSlash(s) == \E i \in 1..Len(s) : s[i] = "/"

\* s.rfind("/"): 0-based index of the last "/", -1 if there is none
FindLast(s) ==
  IF HasSlash(s)
  THEN (CHOOSE i \in 1..Len(s) :
          s[i] = "/" /\ \A j \in (i+1)..Len(s) : s[j] # "/") - 1
  ELSE -1

\* s.find("/"): 0-based index of the first "/", -1 if there is none
Find(s) ==
  IF HasSlash(s)
  THEN (CHOOSE i \in 1..Len(s) :
          s[i] = "/" /\ \A j \in 1..(i-1) : s[j] # "/") - 1
  ELSE -1

_parse_model_string(s) ==
  LET slash == Find(s)
      provider == SubSeq(s, 1, slash)
      model == SubSeq(s, slash + 2, Len(s))
  IN IF slash > 0 /\ InRegistry(provider)
     THEN <<provider, model>>
     ELSE << <<"openai">>, s >>

(***************************************************************************)
(* config.py: _resolve_from_env                                            *)
(***************************************************************************)
\* a or b, for strings
Or(a, b) == IF a # "" THEN a ELSE b

_resolve_from_env(e) ==
  LET ai_provider == Get(e, "AI_PROVIDER", <<"openai">>)
      ai_model == Get(e, "AI_MODEL", << >>)
      shorthand == ai_model # << >> /\ HasSlash(ai_model)
      provider == IF shorthand THEN _parse_model_string(ai_model)[1]
                  ELSE ai_provider
      model == IF shorthand THEN _parse_model_string(ai_model)[2]
               ELSE IF ai_model # << >> THEN ai_model
               ELSE DefaultsGet(provider).default_model
      defaults == DefaultsGet(provider)
      env_key == defaults.env_key
      api_key == IF env_key # "" THEN Get(e, env_key, "") ELSE ""
      base_url == Or(Get(e, "OPENAI_BASE_URL", ""), defaults.base_url)
  IN [ provider |-> provider,
       model |-> model,
       api_key |-> api_key,
       base_url |-> base_url,
       embedding_model |-> Get(e, "EMBEDDING_MODEL", "text-embedding-3-small"),
       embedding_api_key |-> Or(Get(e, "EMBEDDING_API_KEY", ""), api_key),
       embedding_base_url |-> Or(Get(e, "EMBEDDING_BASE_URL", ""), base_url) ]

(***************************************************************************)
(* config.py: _fetch_from_web_app                                          *)
(*                                                                         *)
(* A response is what httpx.get and resp.json() do: exc is the exception   *)
(* httpx.get raises ("" if it returns), status_code the status it returns, *)
(* json_ok whether resp.json() parses, body the parsed JSON object.        *)
(***************************************************************************)
\* as ExceptException, for "except httpx.ConnectError"
ExceptConnectError(exc) == exc = "ConnectError"

\* except Exception: every exception the calls can raise derives from it
ExceptException(exc) == exc # ""

_fetch_from_web_app(resp) ==
  LET inTry == IF resp.exc # "" THEN resp.exc
               ELSE IF resp.status_code = 200 /\ ~resp.json_ok
                    THEN "JSONDecodeError"
                    ELSE ""
  IN [ value |-> IF inTry = "" /\ resp.status_code = 200
                 THEN Some(resp.body) ELSE None,
       raised |-> inTry # "" /\ ~ExceptException(inTry) ]

(***************************************************************************)
(* config.py: _resolve_config                                              *)
(***************************************************************************)
\* "if remote:" - None and the empty dict are falsy
RemoteTruthy(r) ==
  r # None /\ \E k \in DOMAIN r[1] : r[1][k] # None

\* as ResolveFromRemote without the two "or" fallbacks of the embedding values
ResolveFromRemote_no_inherit(r) ==
  LET provider == Get(r, "provider", <<"openai">>)
      model0 == Get(r, "model", << >>)
      base_url0 == Get(r, "baseUrl", "")
  IN [ provider |-> provider,
       model |-> IF model0 = << >> THEN DefaultsGet(provider).default_model
                 ELSE model0,
       api_key |-> Get(r, "apiKey", ""),
       base_url |-> IF base_url0 = "" THEN DefaultsGet(provider).base_url
                    ELSE base_url0,
       embedding_model |-> Get(r, "embeddingModel", "text-embedding-3-small"),
       embedding_api_key |-> Get(r, "embeddingApiKey", ""),
       embedding_base_url |-> Get(r, "embeddingBaseUrl", "") ]

\* the "if remote:" branch of _resolve_config
ResolveFromRemote(r) ==
  LET provider == Get(r, "provider", <<"openai">>)
      model0 == Get(r, "model", << >>)
      api_key == Get(r, "apiKey", "")
      base_url0 == Get(r, "baseUrl", "")
      model == IF model0 = << >> THEN DefaultsGet(provider).default_model
               ELSE model0
      base_url == IF base_url0 = "" THEN DefaultsGet(provider).base_url
                  ELSE base_url0
  IN [ provider |-> provider,
       model |-> model,
       api_key |-> api_key,
       base_url |-> base_url,
       embedding_model |-> Get(r, "embeddingModel", "text-embedding-3-small"),
       embedding_api_key |-> Or(Get(r, "embeddingApiKey", ""), api_key),
       embedding_base_url |-> Or(Get(r, "embeddingBaseUrl", ""), base_url) ]

(***************************************************************************)
(* Inputs of the configuration resolution                                  *)
(***************************************************************************)
RECURSIVE StringsOver(_, _)
StringsOver(tokens, n) ==
  IF n = 0 THEN { << >> }
  ELSE LET shorter == StringsOver(tokens, n - 1)
       IN shorter \cup { Append(s, t) : s \in shorter, t \in tokens }

\* a string is a sequence of tokens in which no two slash-free runs touch
WellFormed(s) ==
  \A i \in 1..(Len(s) - 1) : s[i] = "/" \/ s[i+1] = "/"

Strings(tokens) == { s \in StringsOver(tokens, MaxLen) : WellFormed(s) }

ParseTokens == {"/", "openai", "anthropic", "ollama", "gpt-4o", "some", "weird"}
ModelTokens == {"/", "anthropic", "m"}

Opt(S) == {None} \cup { Some(v) : v \in S }

Envs ==
  [ AI_PROVIDER : Opt({ << >>, <<"anthropic">>, <<"weird">> }),
    AI_MODEL : Opt(Strings(ModelTokens)),
    OPENAI_BASE_URL : Opt({"http://proxy/v1"}),
    OPENAI_API_KEY : {Some("sk-openai")},
    ANTHROPIC_API_KEY : Opt({"sk-ant"}),
    EMBEDDING_MODEL : {None},
    EMBEDDING_API_KEY : Opt({"", "sk-embed"}),
    EMBEDDING_BASE_URL : Opt({"", "http://embed/v1"}) ]

Bodies ==
  [ provider : Opt({ << >>, <<"anthropic">>, <<"weird">> }),
    model : Opt({ << >>, <<"m">> }),
    apiKey : Opt({"sk-remote"}),
    baseUrl : Opt({"", "http://remote/v1"}),
    embeddingModel : {None},
    embeddingApiKey : Opt({"", "sk-embed"}),
    embeddingBaseUrl : Opt({"", "http://embed/v1"}) ]

SomeBody ==
  [ provider |-> Some(<<"anthropic">>), model |-> Some(<<"m">>),
    apiKey |-> Some("sk-remote"), baseUrl |-> Some("http://remote/v1"),
    embeddingModel |-> None, embeddingApiKey |-> None,
    embeddingBaseUrl |-> None ]

FetchFailures ==
  { [exc |-> x, status_code |-> 0, json_ok |-> FALSE, body |-> SomeBody] :
      x \in {"ConnectError", "ReadTimeout", "RuntimeError"} }
  \cup { [exc |-> "", status_code |-> c, json_ok |-> TRUE, body |-> SomeBody] :
      c \in {401, 500} }
  \cup { [exc |-> "", status_code |-> 200, json_ok |-> FALSE, body |-> SomeBody] }

Responses ==
  FetchFailures
  \cup { [exc |-> "", status_code |-> 200, json_ok |-> TRUE, body |-> b] :
           b \in Bodies }

(***************************************************************************)
(* Actions of config.py                                                    *)
(***************************************************************************)
ParseModelString ==
  /\ parsed = None
  /\ parsed' = Some(_parse_model_string(model_str))
  /\ UNCHANGED <<model_str, cfg_pc, response, remote, fetch_raised, env, cfg>>
  /\ UNCHANGED srvvars

\* remote = _fetch_from_web_app()
FetchFromWebApp ==
  /\ cfg_pc = "start"
  /\ \E resp \in Responses :
       LET r == _fetch_from_web_app(resp)
       IN /\ response' = Some(resp)
          /\ remote' = r.value
          /\ fetch_raised' = r.raised
          /\ cfg_pc' = IF r.raised THEN "raised" ELSE "fetched"
  /\ UNCHANGED <<model_str, parsed, env, cfg>>
  /\ UNCHANGED srvvars

\* the rest of _resolve_config
ResolveConfig ==
  /\ cfg_pc = "fetched"
  /\ IF RemoteTruthy(remote)
     THEN /\ cfg' = Some(ResolveFromRemote(remote[1]))
          /\ env' = env
     ELSE \E e \in Envs :
            /\ env' = Some(e)
            /\ cfg' = Some(_resolve_from_env(e))
  /\ cfg_pc' = "resolved"
  /\ UNCHANGED <<model_str, parsed, response, remote, fetch_raised>>
  /\ UNCHANGED srvvars

(***************************************************************************)
(* server.py: get_rag and get_rag_anything                                 *)
(*                                                                         *)
(* Neither coroutine awaits anything but get_rag, which awaits nothing, so *)
(* each runs to its return without suspending.  What the imports and the   *)
(* constructors do is the environment's choice at each call.               *)
(***************************************************************************)
CtorOutcomes == {"ok", "ImportError", "raise"}

\* inst: rag_instance, n: objects built so far, outcome: what the try block
\* does if it runs.  did records which path was taken.
\* as get_rag without its "if rag_instance is not None" test
get_rag_rebuild(inst, n, outcome) ==
  IF outcome = "ok"
  THEN [inst |-> n + 1, built |-> n + 1, ret |-> n + 1, raised |-> FALSE,
        did |-> "built"]
  ELSE IF outcome = "ImportError"
  THEN [inst |-> inst, built |-> n, ret |-> 0, raised |-> FALSE,
        did |-> "ImportError"]
  ELSE [inst |-> inst, built |-> n, ret |-> 0, raised |-> TRUE,
        did |-> "raised"]

\* as get_rag without its "global rag_instance": the object is never cached
get_rag_uncached(inst, n, outcome) ==
  IF outcome = "ok"
  THEN [inst |-> inst, built |-> n + 1, ret |-> n + 1, raised |-> FALSE,
        did |-> "built"]
  ELSE IF outcome = "ImportError"
  THEN [inst |-> inst, built |-> n, ret |-> 0, raised |-> FALSE,
        did |-> "ImportError"]
  ELSE [inst |-> inst, built |-> n, ret |-> 0, raised |-> TRUE,
        did |-> "raised"]

get_rag(inst, n, outcome) ==
  IF inst # 0
  THEN [inst |-> inst, built |-> n, ret |-> inst, raised |-> FALSE,
        did |-> "cached"]
  ELSE IF outcome = "ok"
  THEN [inst |-> n + 1, built |-> n + 1, ret |-> n + 1, raised |-> FALSE,
        did |-> "built"]
  ELSE IF outcome = "ImportError"
  THEN [inst |-> inst, built |-> n, ret |-> 0, raised |-> FALSE,
        did |-> "ImportError"]
  ELSE [inst |-> inst, built |-> n, ret |-> 0, raised |-> TRUE,
        did |-> "raised"]

\* any: rag_anything_instance; imp: what "from raganything import" does;
\* ctor: what RAGAnything(...) does; outcome: as for get_rag.
\* ragdid is what the nested get_rag did ("not_called" if it was not reached).
get_rag_anything(any, inst, n, imp, ctor, outcome) ==
  IF any # None
  THEN [any |-> any, inst |-> inst, built |-> n, ret |-> any, raised |-> FALSE,
        did |-> "cached", ragdid |-> "not_called"]
  ELSE IF imp = "ImportError"
  THEN [any |-> any, inst |-> inst, built |-> n, ret |-> None, raised |-> FALSE,
        did |-> "ImportError", ragdid |-> "not_called"]
  ELSE LET g == get_rag(inst, n, outcome)
       IN IF g.raised \/ ctor = "raise"
          THEN [any |-> any, inst |-> g.inst, built |-> g.built, ret |-> None,
                raised |-> TRUE, did |-> "raised", ragdid |-> g.did]
          ELSE [any |-> Some(g.ret), inst |-> g.inst, built |-> g.built,
                ret |-> Some(g.ret), raised |-> FALSE, did |-> "built",
                ragdid |-> g.did]

(***************************************************************************)
(* server.py: verify_api_key                                               *)
(***************************************************************************)
\* TRUE iff the dependency returns, FALSE iff it raises HTTPException(401)
verify_api_key_prefix_only(key, authorization) ==
  IF key = "" THEN TRUE
  ELSE authorization # None /\ authorization[1] # ""

verify_api_key(key, authorization) ==
  IF key = "" THEN TRUE
  ELSE ~(authorization = None \/ authorization[1] = ""
         \/ authorization[1] # "Bearer " \o key)

(***************************************************************************)
(* server.py: requests                                                     *)
(***************************************************************************)
Conns == {"c1", "c2"}

Endpoints == {"health", "ingest_text", "ingest_file", "query", "store_memory",
              "query_memory", "delete_documents", "graph_stats"}

\* routes declared with dependencies=[Depends(verify_api_key)]
Protected == Endpoints \ {"health"}

\* routes that take a request model
WithBody == Endpoints \ {"health", "graph_stats"}

Authorizations == {None, Some("Bearer s3cret"), Some("Bearer wrong")}

Idle ==
  [ pc |-> "idle", endpoint |-> "", authorization |-> None,
    ragdid |-> "not_called", anydid |-> "not_called", rag |-> 0,
    calls |-> << >>, exc |-> "", status |-> 0, detail |-> "", mode |-> "",
    uninit |-> FALSE ]

\* the response of a request, which ends it
Respond(r, status, detail) ==
  [r EXCEPT !.pc = "done", !.status = status, !.detail = detail]

\* "await <collaborator call>": the handler suspends until Resume
Await(r, handle, call) ==
  [r EXCEPT !.pc = "awaiting", !.rag = handle, !.calls = Append(@, call)]

\* a step leaves request r on connection c: still in flight, or answered
Commit(c, r) ==
  /\ req' = [req EXCEPT ![c] = IF r.pc = "done" THEN Idle ELSE r]
  /\ sent' = IF r.pc = "done" THEN Some(r) ELSE None

TypeOK ==
  /\ API_KEY \in {"", "s3cret"}
  /\ rag_instance \in 0..(MaxRequests + 1)
  /\ phase \in {"startup", "serving", "failed", "shutdown"}
  /\ arrived \in 0..MaxRequests
  /\ \A c \in Conns : req[c].pc \in {"idle", "handler", "awaiting"}
  /\ sent # None => sent[1].pc = "done"

(***************************************************************************)
(* server.py: lifespan                                                     *)
(***************************************************************************)
\* "await get_rag()" before the application starts to serve
Startup ==
  /\ phase = "startup"
  /\ \E o \in CtorOutcomes :
       LET g == get_rag(rag_instance, constructed, o)
       IN /\ rag_instance' = g.inst
          /\ constructed' = g.built
          /\ unavailable' = (unavailable \/ g.did = "ImportError")
          /\ phase' = IF g.raised THEN "failed" ELSE "serving"
  /\ sent' = None
  /\ UNCHANGED <<API_KEY, rag_anything_instance, req, arrived>>
  /\ UNCHANGED cfgvars

\* after the yield: finalize_storages(), whose exceptions are ignored
Shutdown ==
  /\ phase = "serving"
  /\ \A c \in Conns : req[c].pc = "idle"
  /\ phase' = "shutdown"
  /\ sent' = None
  /\ UNCHANGED <<API_KEY, rag_instance, rag_anything_instance, req, arrived,
                 constructed, unavailable>>
  /\ UNCHANGED cfgvars

(***************************************************************************)
(* server.py: a request arrives; the route's dependency and the request    *)
(* model are evaluated before the handler is called                        *)
(***************************************************************************)
Arrive(c) ==
  /\ phase = "serving"
  /\ req[c].pc = "idle"
  /\ arrived < MaxRequests
  /\ arrived' = arrived + 1
  /\ \E e \in Endpoints, a \in Authorizations, valid \in BOOLEAN :
       LET r == [Idle EXCEPT !.endpoint = e, !.authorization = a,
                             !.uninit = (rag_instance = 0)]
       IN /\ (e \notin WithBody => valid)
          /\ Commit(c,
               IF e \in Protected /\ ~verify_api_key(API_KEY, a)
               THEN Respond(r, 401, "Invalid API key")
               ELSE IF ~valid
               THEN Respond(r, 422, "validation error")
               ELSE [r EXCEPT !.pc = "handler"])
  /\ UNCHANGED <<API_KEY, rag_instance, rag_anything_instance, phase,
                 constructed, unavailable>>
  /\ UNCHANGED cfgvars

(***************************************************************************)
(* server.py: handlers, each from its first line to its first suspension   *)
(***************************************************************************)
health(c) ==
  /\ req[c].pc = "handler" /\ req[c].endpoint = "health"
  /\ Commit(c, Respond(req[c], 200, "ok"))
  /\ UNCHANGED <<API_KEY, rag_instance, rag_anything_instance, phase, arrived,
                 constructed, unavailable>>
  /\ UNCHANGED cfgvars

\* if not rag: raise HTTPException(503); try: await rag.<call>(...)
\* With rag None and the test lost, rag.<call> raises AttributeError inside
\* the try block.
AfterGetRag_unchecked(r, rag, call) ==
  IF call = "" THEN Respond([r EXCEPT !.rag = rag], 200, "ok")
  ELSE IF rag = 0 THEN Respond([r EXCEPT !.exc = call], 500, "str(e)")
  ELSE Await(r, rag, call)

AfterGetRag(r, rag, call) ==
  IF rag = 0 THEN Respond(r, 503, "RAG engine not available")
  ELSE IF call = "" THEN Respond([r EXCEPT !.rag = rag], 200, "ok")
  ELSE Await(r, rag, call)

\* rag = await get_rag(), then the rest of the handler
\* (graph_stats makes no call: call is "")
EngineHandler(c, endpoint, call) ==
  /\ req[c].pc = "handler" /\ req[c].endpoint = endpoint
  /\ \E o \in CtorOutcomes :
       LET g == get_rag(rag_instance, constructed, o)
           r == [req[c] EXCEPT !.ragdid = g.did]
       IN /\ rag_instance' = g.inst
          /\ constructed' = g.built
          /\ unavailable' = (unavailable \/ g.did = "ImportError")
          /\ Commit(c,
               IF g.raised
               THEN Respond([r EXCEPT !.exc = "LightRAG"], 500,
                            "Internal Server Error")
               ELSE AfterGetRag(r, g.ret, call))
  /\ UNCHANGED <<API_KEY, rag_anything_instance, phase, arrived>>
  /\ UNCHANGED cfgvars

ingest_text(c) == EngineHandler(c, "ingest_text", "ainsert")

query(c) == EngineHandler(c, "query", "aquery")

store_memory(c) == EngineHandler(c, "store_memory", "ainsert")

query_memory(c) == EngineHandler(c, "query_memory", "aquery")

delete_documents(c) == EngineHandler(c, "delete_documents", "adelete_by_doc_id")

graph_stats(c) == EngineHandler(c, "graph_stats", "")

ingest_file(c) ==
  /\ req[c].pc = "handler" /\ req[c].endpoint = "ingest_file"
  /\ \E imp \in {"ok", "ImportError"}, ctor \in {"ok", "raise"},
        o \in CtorOutcomes, readable \in BOOLEAN :
       LET a == get_rag_anything(rag_anything_instance, rag_instance,
                                 constructed, imp, ctor, o)
           \* the fallback's own get_rag
           g == get_rag(a.inst, a.built, o)
           fallback == ~a.raised /\ a.ret = None
           r == [req[c] EXCEPT !.anydid = a.did,
                               !.ragdid = IF fallback THEN g.did ELSE a.ragdid]
       IN /\ rag_anything_instance' = a.any
          /\ rag_instance' = IF fallback THEN g.inst ELSE a.inst
          /\ constructed' = IF fallback THEN g.built ELSE a.built
          /\ unavailable' = (unavailable \/ r.ragdid = "ImportError")
          /\ Commit(c,
               IF a.raised
               THEN Respond([r EXCEPT !.exc = IF a.ragdid = "raised"
                                              THEN "LightRAG"
                                              ELSE "RAGAnything"],
                            500, "Internal Server Error")
               ELSE IF fallback
               THEN IF g.raised
                    THEN Respond([r EXCEPT !.exc = "LightRAG"], 500,
                                 "Internal Server Error")
                    ELSE IF g.ret = 0
                    THEN Respond(r, 503, "RAG engine not available")
                    ELSE IF ~readable
                    THEN Respond([r EXCEPT !.rag = g.ret, !.exc = "open"],
                                 500, "str(e)")
                    ELSE Await(r, g.ret, "ainsert")
               ELSE Await(r, a.ret[1], "process_document"))
  /\ UNCHANGED <<API_KEY, phase, arrived>>
  /\ UNCHANGED cfgvars

\* "mode" of the response of ingest_file; no other response has one
ModeOf_multimodal(endpoint, call) ==
  IF endpoint # "ingest_file" THEN "" ELSE "multimodal"

ModeOf(endpoint, call) ==
  IF endpoint # "ingest_file" THEN ""
  ELSE IF call = "process_document" THEN "multimodal"
  ELSE "text_only"

\* the awaited collaborator call returns or raises; the handler runs to its end
Resume(c) ==
  /\ req[c].pc = "awaiting"
  /\ \E returns \in BOOLEAN :
       LET r == req[c]
           call == r.calls[Len(r.calls)]
       IN Commit(c,
            IF returns
            THEN Respond([r EXCEPT !.mode = ModeOf(r.endpoint, call)],
                         200, "ok")
            ELSE Respond([r EXCEPT !.exc = call], 500, "str(e)"))
  /\ UNCHANGED <<API_KEY, rag_instance, rag_anything_instance, phase, arrived,
                 constructed, unavailable>>
  /\ UNCHANGED cfgvars

(***************************************************************************)
(* Specifications                                                          *)
(***************************************************************************)
EmptyEnv ==
  [ AI_PROVIDER |-> None, AI_MODEL |-> None, OPENAI_BASE_URL |-> None,
    OPENAI_API_KEY |-> None, ANTHROPIC_API_KEY |-> None,
    EMBEDDING_MODEL |-> None, EMBEDDING_API_KEY |-> None,
    EMBEDDING_BASE_URL |-> None ]

\* config.py before _resolve_config is called
InitConfig ==
  /\ cfg_pc = "start"
  /\ response = None
  /\ remote = None
  /\ fetch_raised = FALSE
  /\ env = None
  /\ cfg = None

\* config.py once imported, its environment empty and the web app down
ConfigLoaded ==
  /\ cfg_pc = "resolved"
  /\ response = None
  /\ remote = None
  /\ fetch_raised = FALSE
  /\ env = Some(EmptyEnv)
  /\ cfg = Some(_resolve_from_env(EmptyEnv))

\* server.py once imported
ServerImported ==
  /\ rag_instance = 0
  /\ rag_anything_instance = None
  /\ phase = "startup"
  /\ req = [c \in Conns |-> Idle]
  /\ sent = None
  /\ arrived = 0
  /\ constructed = 0
  /\ unavailable = FALSE

\* API_KEY is os.getenv("RAG_API_KEY", "")
Init ==
  /\ model_str = << >> /\ parsed = None
  /\ ConfigLoaded
  /\ API_KEY \in {"", "s3cret"}
  /\ ServerImported

Next ==
  \/ Startup
  \/ Shutdown
  \/ \E c \in Conns :
       \/ Arrive(c)
       \/ health(c)
       \/ ingest_text(c)
       \/ ingest_file(c)
       \/ query(c)
       \/ store_memory(c)
       \/ query_memory(c)
       \/ delete_documents(c)
       \/ graph_stats(c)
       \/ Resume(c)

Spec == Init /\ [][Next]_vars

InitParse ==
  /\ model_str \in Strings(ParseTokens) /\ parsed = None
  /\ InitConfig
  /\ API_KEY = ""
  /\ ServerImported

SpecParse == InitParse /\ [][ParseModelString]_vars

InitResolve ==
  /\ model_str = << >> /\ parsed = None
  /\ InitConfig
  /\ API_KEY = ""
  /\ ServerImported

NextConfig == FetchFromWebApp \/ ResolveConfig

SpecConfig == InitResolve /\ [][NextConfig]_vars

(***************************************************************************)
(* Properties of config.py                                                 *)
(***************************************************************************)
KnownProvider(p) == \E k \in DOMAIN PROVIDER_DEFAULTS : p = <<k>>

\* s splits at position i: s[i] is its first "/"
FirstSlashAt(s, i) ==
  i \in 1..Len(s) /\ s[i] = "/" /\ \A j \in 1..(i - 1) : s[j] # "/"

\* C3: _parse_model_string splits its argument at the first "/"; if the part
\* left of it is a known provider id the result is (that provider, all that
\* follows the first "/"); in every other case the result is provider
\* "openai" with the whole argument as the model.
C3_ParseRule ==
  parsed # None =>
    LET s == model_str
        res == parsed[1]
        split == { i \in 1..Len(s) :
                     FirstSlashAt(s, i) /\ KnownProvider(SubSeq(s, 1, i - 1)) }
    IN /\ \A i \in split :
            res = << SubSeq(s, 1, i - 1), SubSeq(s, i + 1, Len(s)) >>
       /\ split = {} => res = << <<"openai">>, s >>

\* a known provider on the left of the first of two slashes has been split off
C3_Witness ==
  /\ model_str = <<"anthropic", "/", "some">>
  /\ parsed = Some(<< <<"anthropic">>, <<"some">> >>)

\* C2: every resolved configuration has a non-empty provider, a non-empty
\* model and a non-empty base URL, whatever the remote settings and the
\* environment hold.
C2_NoUnsetField ==
  cfg # None =>
    /\ cfg[1].provider # << >>
    /\ cfg[1].model # << >>
    /\ cfg[1].base_url # ""

\* the fetch failed: an exception, a status other than 200, or a body that
\* does not parse
FetchFailed(resp) ==
  resp.exc # "" \/ resp.status_code # 200 \/ ~resp.json_ok

\* C4: whenever the remote fetch fails, _fetch_from_web_app returns None
\* without raising, and the configuration resolved is the one
\* _resolve_from_env gives for the environment.
C4_FetchFailureFallsBack ==
  (response # None /\ FetchFailed(response[1])) =>
    /\ ~fetch_raised
    /\ cfg_pc # "raised"
    /\ remote = None
    /\ cfg # None => (env # None /\ cfg = Some(_resolve_from_env(env[1])))

\* a timed-out fetch has been followed by a resolution from an environment
\* that names a provider
C4_Witness ==
  /\ response # None /\ response[1].exc = "ReadTimeout"
  /\ cfg # None
  /\ env # None /\ env[1].AI_PROVIDER = Some(<<"anthropic">>)
  /\ cfg[1].provider = <<"anthropic">>

\* the embedding-specific values among the inputs of the path taken
EmbeddingInputs ==
  IF RemoteTruthy(remote)
  THEN [ key |-> Get(remote[1], "embeddingApiKey", ""),
         url |-> Get(remote[1], "embeddingBaseUrl", "") ]
  ELSE [ key |-> Get(env[1], "EMBEDDING_API_KEY", ""),
         url |-> Get(env[1], "EMBEDDING_BASE_URL", "") ]

\* C8: on both paths the resolved embedding API key (base URL) is the
\* embedding-specific one when that is present and non-empty, and the
\* resolved chat API key (base URL) otherwise.
C8_EmbeddingInherits ==
  cfg # None =>
    LET c == cfg[1]
        e == EmbeddingInputs
    IN /\ c.embedding_api_key = IF e.key # "" THEN e.key ELSE c.api_key
       /\ c.embedding_base_url = IF e.url # "" THEN e.url ELSE c.base_url

\* remote settings that give a chat key and no embedding key
C8_Witness ==
  /\ cfg # None /\ RemoteTruthy(remote)
  /\ remote[1].embeddingApiKey = None
  /\ remote[1].embeddingBaseUrl = Some("")
  /\ cfg[1].api_key = "sk-remote"
  /\ cfg[1].embedding_api_key = "sk-remote"
  /\ cfg[1].embedding_base_url = cfg[1].base_url

(***************************************************************************)
(* Properties of server.py                                                 *)
(***************************************************************************)
\* endpoints whose handler calls get_rag or get_rag_anything
EngineDependent == Endpoints \ {"health"}

\* a server API key is configured and the header is missing or is not
\* "Bearer <server API key>"
BadHeader(r) ==
  /\ API_KEY # ""
  /\ (r.authorization = None \/ r.authorization[1] # "Bearer " \o API_KEY)

\* no collaborator was constructed or called for request r
NoCollaboratorCall(r) ==
  r.calls = << >> /\ r.ragdid = "not_called" /\ r.anydid = "not_called"

\* C1 as stated: on every endpoint, health included, a request with a missing
\* or wrong header is answered 401 when a key is configured, with no
\* collaborator call; with no key configured a request without the header is
\* never answered 401.
C1_AllEndpointsAuthenticated ==
  /\ \A c \in Conns : req[c].pc # "idle" => ~BadHeader(req[c])
  /\ sent # None =>
       /\ BadHeader(sent[1]) =>
            (sent[1].status = 401 /\ NoCollaboratorCall(sent[1]))
       /\ (API_KEY = "" /\ sent[1].authorization = None) =>
            sent[1].status # 401

\* C1 amended: the same on every endpoint but health; health is answered 200
\* whatever the header, and calls no collaborator.
C1_ProtectedEndpointsAuthenticated ==
  /\ \A c \in Conns :
       (req[c].pc # "idle" /\ req[c].endpoint \in Protected)
         => ~BadHeader(req[c])
  /\ sent # None =>
       /\ (BadHeader(sent[1]) /\ sent[1].endpoint \in Protected) =>
            (sent[1].status = 401 /\ NoCollaboratorCall(sent[1]))
       /\ (API_KEY = "" /\ sent[1].authorization = None) =>
            sent[1].status # 401
       /\ sent[1].endpoint = "health" =>
            (sent[1].status = 200 /\ NoCollaboratorCall(sent[1]))

\* a query with a wrong bearer token has been answered 401
C1_Witness ==
  /\ sent # None
  /\ sent[1].endpoint = "query"
  /\ sent[1].authorization = Some("Bearer wrong")
  /\ API_KEY = "s3cret"
  /\ sent[1].status = 401

\* connection c runs its handler in this step, up to its first suspension
HandlerStep(c) == req[c].pc = "handler" /\ req'[c].pc # "handler"

\* the request of connection c after a step of its handler
After(c) == IF req'[c].pc = "idle" THEN sent'[1] ELSE req'[c]

Attempted == {"built", "ImportError", "raised"}

\* C5 as stated: once a construction has failed, and as long as the handle
\* is unset, every request an engine-dependent handler takes up is answered
\* 503, and the handler does not attempt the construction.  (Steps in which a
\* collaborator raises another exception are left to C6.)
C5_UnavailableIsFinal ==
  [][\A c \in Conns :
       (/\ unavailable /\ rag_instance = 0 /\ rag_instance' = 0
        /\ HandlerStep(c)
        /\ req[c].endpoint \in EngineDependent
        /\ After(c).exc = "")
       => (/\ After(c).pc = "done" /\ After(c).status = 503
           /\ After(c).ragdid \notin Attempted)]_vars

\* C5 amended: the failure is not remembered.  A handler that finds the
\* handle unset attempts the construction again (ingest file: unless the
\* document processor is cached), and the request is answered 503, with no
\* engine call, when that attempt fails for a missing dependency (ingest
\* file: and the document processor is missing too).
C5_UnavailableIsRetried ==
  [][\A c \in Conns :
       (/\ rag_instance = 0
        /\ HandlerStep(c)
        /\ req[c].endpoint \in EngineDependent)
       => LET r == After(c)
              direct == req[c].endpoint # "ingest_file"
              fallback == req[c].endpoint = "ingest_file"
                          /\ r.anydid = "ImportError"
          IN /\ (direct \/ rag_anything_instance = None)
                  => r.ragdid \in Attempted
             /\ ((direct \/ fallback) /\ r.ragdid = "ImportError")
                  => (r.pc = "done" /\ r.status = 503 /\ r.calls = << >>)]_vars

\* after a failed construction, a request has attempted it again, failed
\* again and been answered 503
C5_Witness ==
  /\ sent # None
  /\ sent[1].uninit
  /\ sent[1].ragdid = "ImportError"
  /\ sent[1].status = 503
  /\ rag_instance = 0 /\ unavailable

\* C6 as stated: a request during which a collaborator raised an exception
\* is answered 500 with the exception's message, and the server goes on
\* serving.
C6_ExceptionBecomes500WithMessage ==
  (sent # None /\ sent[1].exc # "") =>
    /\ sent[1].status = 500
    /\ sent[1].detail = "str(e)"
    /\ phase = "serving"

\* request r went through ingest_file's text-only branch with an engine
TextOnlyBranch(r) ==
  /\ r.endpoint = "ingest_file"
  /\ r.anydid = "ImportError"
  /\ r.ragdid \in {"cached", "built"}

\* request r went through ingest_file with a document processor
MultimodalBranch(r) ==
  /\ r.endpoint = "ingest_file"
  /\ r.anydid \in {"cached", "built"}

\* C7 as stated: ingest file without a document processor and with an engine
\* does not fail: it is answered ok, mode text_only, after exactly one insert
\* and no process_document; with a document processor it is answered mode
\* multimodal after process_document.
C7_FallbackNeverFails ==
  sent # None =>
    /\ TextOnlyBranch(sent[1]) =>
         /\ sent[1].status = 200
         /\ sent[1].mode = "text_only"
         /\ sent[1].calls = <<"ainsert">>
    /\ MultimodalBranch(sent[1]) =>
         /\ sent[1].calls = <<"process_document">>
         /\ sent[1].mode = "multimodal"

\* C7 amended: the same unless reading the file or the collaborator call
\* raises.  Without a document processor: process_document is never called
\* and insert at most once; if nothing raises the answer is ok, text_only,
\* after one insert; if the read raises the answer is 500 and insert is not
\* called; if insert raises the answer is 500.  With a document processor:
\* process_document is the one call; the answer is ok, multimodal, if it
\* returns and 500 if it raises.
C7_FallbackUnlessRaised ==
  sent # None =>
    /\ TextOnlyBranch(sent[1]) =>
         /\ sent[1].calls \in { << >>, <<"ainsert">> }
         /\ sent[1].exc = "" =>
              /\ sent[1].status = 200
              /\ sent[1].mode = "text_only"
              /\ sent[1].calls = <<"ainsert">>
         /\ sent[1].exc = "open" =>
              (sent[1].status = 500 /\ sent[1].calls = << >>)
         /\ sent[1].exc = "ainsert" =>
              (sent[1].status = 500 /\ sent[1].calls = <<"ainsert">>)
    /\ MultimodalBranch(sent[1]) =>
         /\ sent[1].calls = <<"process_document">>
         /\ sent[1].exc = "" =>
              (sent[1].status = 200 /\ sent[1].mode = "multimodal")
         /\ sent[1].exc # "" => sent[1].status = 500

\* a file has been ingested as text because the document processor is missing
C7_Witness ==
  /\ sent # None
  /\ TextOnlyBranch(sent[1])
  /\ sent[1].status = 200
  /\ sent[1].mode = "text_only"
  /\ sent[1].calls = <<"ainsert">>
  /\ rag_anything_instance = None

\* request r arrived while the handle was unset and has been through get_rag
\* with a handle
FirstUse(r) == r.pc = "awaiting" /\ r.uninit /\ r.ragdid # "not_called"

\* C9 as stated: two requests that arrive while the handle is unset each run
\* the construction, so that two handles have been constructed once both
\* have been through get_rag.
C9_ConcurrentFirstUseBuildsTwice ==
  \A c1, c2 \in Conns :
    (c1 # c2 /\ FirstUse(req[c1]) /\ FirstUse(req[c2])) => constructed >= 2

\* C9 amended: get_rag does not suspend between its test and its assignment:
\* at most one handle is constructed in a run, it is the cached one, and of
\* the requests in flight at most one has built it.
C9_AtMostOneHandle ==
  /\ constructed <= 1
  /\ rag_instance \in {0, constructed}
  /\ \A c1, c2 \in Conns :
       (req[c1].ragdid = "built" /\ req[c2].ragdid = "built") => c1 = c2

\* two requests that arrived while the handle was unset are in flight, one
\* having built the handle and the other reusing it
C9_Witness ==
  \E c1, c2 \in Conns :
    /\ c1 # c2
    /\ FirstUse(req[c1]) /\ req[c1].ragdid = "built"
    /\ FirstUse(req[c2]) /\ req[c2].ragdid = "cached"
    /\ constructed = 1

\* C10: once the handle is set no step changes it, whatever the step answers,
\* and every request that gets a handle gets the cached one.
C10_HandleStable ==
  [][/\ rag_instance # 0 => rag_instance' = rag_instance
     /\ \A c \in Conns :
          req'[c].rag # 0 => req'[c].rag = rag_instance'
     /\ (sent' # None /\ sent'[1].rag # 0) => sent'[1].rag = rag_instance']_vars

\* a second request has been answered through the handle built at startup
C10_Witness ==
  /\ sent # None
  /\ arrived >= 2
  /\ sent[1].ragdid = "cached"
  /\ sent[1].rag = rag_instance /\ rag_instance = 1
  /\ sent[1].status = 200
  /\ ~unavailable

====
